---------------------------- MODULE Spec2Model ----------------------------
(***************************************************************************)
(* A model of scrapper.py: the ContactScraper detectors, the aggregator    *)
(* scrape_contact_page, the sink save_to_excel and the loop of main.       *)
(*                                                                         *)
(* A Python str is a sequence of one-character strings.  A parsed page     *)
(* (soup) is a flat sequence of element nodes, each with a tag, a record   *)
(* of attributes and one text string; get_text is the concatenation of     *)
(* the node strings in document order.                                     *)
(***************************************************************************)
EXTENDS Integers, Sequences, FiniteSets, TLC

VARIABLES
    pc,       \* position of main / of the call under test
    line,     \* the last line read by input(), before .strip()
    url,      \* main's local url
    fetched,  \* what session.get did in the current scrape
    parsed,   \* whether the current scrape reached BeautifulSoup(...)
    soup,     \* the parsed document of the current scrape
    data,     \* the result record (main's local data)
    console,  \* what print_results rendered in the current cycle
    store,    \* scraped_contacts.xlsx: Absent or its rows
    saved,    \* history: the rows written by the completed save_to_excel calls
    trace     \* history: the calls main made in the current cycle

vars == <<pc, line, url, fetched, parsed, soup, data, console, store, saved, trace>>

---------------------------------------------------------------------------
(* Characters and str methods                                              *)

LOWER == <<"a","b","c","d","e","f","g","h","i","j","k","l","m",
           "n","o","p","q","r","s","t","u","v","w","x","y","z">>
UPPER == <<"A","B","C","D","E","F","G","H","I","J","K","L","M",
           "N","O","P","Q","R","S","T","U","V","W","X","Y","Z">>
DIGITS == <<"0","1","2","3","4","5","6","7","8","9">>

Range(f) == {f[i] : i \in DOMAIN f}

Alpha == Range(LOWER) \cup Range(UPPER)
Digit == Range(DIGITS)
\* \s of the re module, over the characters the model uses
Space == {" ", "\t", "\n", "\r"}

\* the lower-case letter of every capital and the capital of every lower-case
\* letter
ToLower == [c \in Range(UPPER) |-> LOWER[CHOOSE i \in 1..26 : UPPER[i] = c]]
ToUpper == [c \in Range(LOWER) |-> UPPER[CHOOSE i \in 1..26 : LOWER[i] = c]]

\* str.lower() and str.upper() on one character
LowerChar(c) == IF c \in DOMAIN ToLower THEN ToLower[c] ELSE c
UpperChar(c) == IF c \in DOMAIN ToUpper THEN ToUpper[c] ELSE c

\* str.lower()
Lower(s) == [i \in 1..Len(s) |-> LowerChar(s[i])]

\* s[i:] with a 1-based i
From(s, i) == SubSeq(s, i, Len(s))

\* str.startswith(p)
StartsWith(s, p) == Len(p) <= Len(s) /\ SubSeq(s, 1, Len(p)) = p

\* str.endswith(p)
EndsWith(s, p) == Len(p) <= Len(s) /\ SubSeq(s, Len(s) - Len(p) + 1, Len(s)) = p

\* p in s
Contains(s, p) == \E i \in 1..(Len(s) - Len(p) + 1) : SubSeq(s, i, i + Len(p) - 1) = p

\* the least and the greatest element of a non-empty set of integers
MinOf(S) == CHOOSE x \in S : \A y \in S : x <= y
MaxOf(S) == CHOOSE x \in S : \A y \in S : x >= y

\* the elements of a set of integers in increasing order
Sorted(S) == [k \in 1..Cardinality(S) |-> CHOOSE x \in S : Cardinality({y \in S : y <= x}) = k]

\* str.lstrip(chars)
LStrip(s, chars) ==
    LET keep == {i \in 1..Len(s) : s[i] \notin chars}
    IN  IF keep = {} THEN <<>> ELSE SubSeq(s, MinOf(keep), Len(s))

\* str.rstrip(chars)
RStrip(s, chars) ==
    LET keep == {i \in 1..Len(s) : s[i] \notin chars}
    IN  IF keep = {} THEN <<>> ELSE SubSeq(s, 1, MaxOf(keep))

\* str.strip()
Strip(s) == RStrip(LStrip(s, Space), Space)

\* str.find(p) as a sequence: the first index at which p occurs in s, if any
Find(s, p) ==
    LET at == {i \in 1..(Len(s) - Len(p) + 1) : SubSeq(s, i, i + Len(p) - 1) = p}
    IN  IF at = {} THEN <<>> ELSE <<MinOf(at)>>

RECURSIVE ReplaceAll(_, _, _)
\* str.replace(old, new), old not empty
ReplaceAll(s, old, new) ==
    LET Replaced(at) ==
            IF at = <<>> THEN s
            ELSE SubSeq(s, 1, at[1] - 1) \o new
                    \o ReplaceAll(From(s, at[1] + Len(old)), old, new)
    IN  Replaced(Find(s, old))

RECURSIVE Split(_, _)
\* str.split(sep) for a one-character sep
Split(s, sep) ==
    LET Parts(at) ==
            IF at = <<>> THEN <<s>>
            ELSE <<SubSeq(s, 1, at[1] - 1)>> \o Split(From(s, at[1] + 1), sep)
    IN  Parts(Find(s, <<sep>>))

RECURSIVE Join(_, _)
\* sep.join(items)
Join(sep, items) ==
    IF items = <<>> THEN <<>>
    ELSE IF Len(items) = 1 THEN items[1]
    ELSE items[1] \o sep \o Join(sep, Tail(items))

\* re.sub(r'\D', '', s)
SubDigits(s) == SelectSeq(s, LAMBDA c : c \in Digit)

\* re.sub(r'\s+', ' ', s): every run of whitespace becomes one blank
SubSpaces(s) ==
    LET keep == Sorted({i \in 1..Len(s) : s[i] \notin Space \/ i = 1 \/ s[i - 1] \notin Space})
    IN  [k \in 1..Len(keep) |-> IF s[keep[k]] \in Space THEN " " ELSE s[keep[k]]]

---------------------------------------------------------------------------
(* The re module, for patterns that are a sequence of quantified character *)
(* classes: a piece is [cls, neg, min, max], max = -1 standing for no      *)
(* upper limit.  Quantifiers are greedy and backtrack as in re.            *)

Lit(c) == [cls |-> {c}, neg |-> FALSE, min |-> 1, max |-> 1]
Rep(cls, lo, hi) == [cls |-> cls, neg |-> FALSE, min |-> lo, max |-> hi]
RepNot(cls, lo, hi) == [cls |-> cls, neg |-> TRUE, min |-> lo, max |-> hi]
Word(s) == [i \in 1..Len(s) |-> Lit(s[i])]

\* whether character c is in the class of piece p (ic: re.IGNORECASE)
InClass(c, p, ic) ==
    (\/ c \in p.cls
     \/ ic /\ (LowerChar(c) \in p.cls \/ UpperChar(c) \in p.cls)) # p.neg

\* how many characters from s[i] on are in p's class, counted up to p.max
Run(s, i, p, ic) ==
    LET out == {j \in i..Len(s) : ~InClass(s[j], p, ic)}
        n == IF out = {} THEN Len(s) - i + 1 ELSE MinOf(out) - i
    IN  IF p.max >= 0 /\ n > p.max THEN p.max ELSE n

RECURSIVE MatchPieces(_, _, _, _, _, _)
\* The match of pieces ps[k..] at s[i]: the start of every piece followed by
\* the end of the match, or <<>> when there is none.  Piece k takes the most
\* characters with which the rest still matches.  full: the match must end
\* at the end of s (re.fullmatch).
MatchPieces(ps, k, s, i, ic, full) ==
    IF k > Len(ps)
    THEN IF full /\ i # Len(s) + 1 THEN <<>> ELSE <<i>>
    ELSE LET Longest(ok) ==
                 IF ok = {} THEN <<>>
                 ELSE <<i>> \o (CHOOSE r \in ok : \A q \in ok : r[1] >= q[1])
         IN  Longest({ MatchPieces(ps, k + 1, s, i + n, ic, full) :
                         n \in ps[k].min..Run(s, i, ps[k], ic) } \ {<<>>})

RECURSIVE MatchAlts(_, _, _, _, _)
\* The first alternative of alts (each [pieces, group]) that matches at s[i]:
\* [start, end, gstart] with end exclusive and gstart the start of the
\* captured group, or <<>>.
MatchAlts(alts, s, i, ic, full) ==
    IF alts = <<>> THEN <<>>
    ELSE LET First(b) ==
                 IF b # <<>>
                 THEN <<[start |-> i, end |-> b[Len(b)], gstart |-> b[alts[1].group]]>>
                 ELSE MatchAlts(Tail(alts), s, i, ic, full)
         IN  First(MatchPieces(alts[1].pieces, 1, s, i, ic, full))

\* re.search from s[i] on: the leftmost match, as a sequence of at most one
SearchFrom(alts, s, i, ic) ==
    LET Leftmost(at) == IF at = {} THEN <<>> ELSE MatchAlts(alts, s, MinOf(at), ic, FALSE)
    IN  Leftmost({j \in i..Len(s) : MatchAlts(alts, s, j, ic, FALSE) # <<>>})

RECURSIVE FindIter(_, _, _, _)
\* re.finditer: the non-overlapping matches from s[i] on, leftmost first
FindIter(alts, s, i, ic) ==
    LET Rest(m) ==
            IF m = <<>> THEN <<>>
            ELSE m \o FindIter(alts, s, IF m[1].end > m[1].start THEN m[1].end
                                        ELSE m[1].start + 1, ic)
    IN  Rest(SearchFrom(alts, s, i, ic))

\* the captured group of a match
Group(s, m) == SubSeq(s, m.gstart, m.end - 1)

\* re.findall for a pattern with at most one group
FindAll(alts, s, ic) ==
    LET Groups(ms) == [j \in 1..Len(ms) |-> Group(s, ms[j])]
    IN  Groups(FindIter(alts, s, 1, ic))

\* re.match: a match at the start of s
ReMatch(alts, s, ic) == MatchAlts(alts, s, 1, ic, FALSE) # <<>>

\* re.fullmatch: a match of the whole of s
ReFullMatch(alts, s, ic) == MatchAlts(alts, s, 1, ic, TRUE) # <<>>

\* re.search: the first match anywhere in s, as a sequence of at most one match
ReSearch(alts, s, ic) == SearchFrom(alts, s, 1, ic)

\* a pattern without alternation whose group is the whole match
Pattern(pieces) == << [pieces |-> pieces, group |-> 1] >>

---------------------------------------------------------------------------
(* String constants of the program                                         *)

S_mailto == <<"m","a","i","l","t","o",":">>
S_http_scheme == <<"h","t","t","p",":","/","/">>
S_https_scheme == <<"h","t","t","p","s",":","/","/">>
S_exit == <<"e","x","i","t">>
S_text_html == <<"t","e","x","t","/","h","t","m","l">>

---------------------------------------------------------------------------
(* The patterns of ContactScraper.__init__                                 *)

EmailLocal == Alpha \cup Digit \cup {".", "_", "%", "+", "-"}
EmailDomain == Alpha \cup Digit \cup {".", "-"}
PhoneSep == Space \cup {".", "-"}

\* [a-zA-Z0-9._%+-]+@[a-zA-Z0-9.-]+\.[a-zA-Z]{2,}
EMAIL_REGEX ==
    Pattern(<< Rep(EmailLocal, 1, -1), Lit("@"), Rep(EmailDomain, 1, -1),
               Lit("."), Rep(Alpha, 2, -1) >>)

\* (\+?[1-9]\d{0,3}[\s.-]?\d{2,4}[\s.-]?\d{2,4}[\s.-]?\d{2,4})
PHONE_REGEX ==
    Pattern(<< Rep({"+"}, 0, 1), Rep(Digit \ {"0"}, 1, 1), Rep(Digit, 0, 3),
               Rep(PhoneSep, 0, 1), Rep(Digit, 2, 4),
               Rep(PhoneSep, 0, 1), Rep(Digit, 2, 4),
               Rep(PhoneSep, 0, 1), Rep(Digit, 2, 4) >>)

\* \s*:?\s*(\+?[1-9]\d{7,15}), what follows the keyword in WHATSAPP_REGEX
WhatsappNumber ==
    << Rep(Space, 0, -1), Rep({":"}, 0, 1), Rep(Space, 0, -1),
       Rep({"+"}, 0, 1), Rep(Digit \ {"0"}, 1, 1), Rep(Digit, 7, 15) >>

\* one alternative of WHATSAPP_REGEX: the keyword, then the number as group 1
WhatsappAlt(keyword) ==
    [pieces |-> keyword \o WhatsappNumber, group |-> Len(keyword) + 4]

\* (?:whatsapp|whats app|wa|w\.a\.?)\s*:?\s*(\+?[1-9]\d{7,15})
WHATSAPP_REGEX ==
    << WhatsappAlt(Word(<<"w","h","a","t","s","a","p","p">>)),
       WhatsappAlt(Word(<<"w","h","a","t","s"," ","a","p","p">>)),
       WhatsappAlt(Word(<<"w","a">>)),
       WhatsappAlt(<< Lit("w"), Lit("."), Lit("a"), Rep({"."}, 0, 1) >>) >>

\* the characters the class of URL_REGEX excludes (the backquote, which a TLA+
\* string cannot hold, is in no string of the model)
UrlStop == Space \cup {"<", ">", "\"", "'", "{", "}", "|", "\\", "^", "[", "]"}

\* https?://[^\s<>\"\'{}|\\^`\[\]]*
URL_REGEX ==
    Pattern(Word(<<"h","t","t","p">>) \o << Rep({"s"}, 0, 1), Lit(":"), Lit("/"), Lit("/"),
                               RepNot(UrlStop, 0, -1) >>)

ADDRESS_KEYWORDS ==
    << <<"a","d","d","r","e","s","s">>,
       <<"l","o","c","a","t","i","o","n">>,
       <<"a","d","d","r">>,
       <<"o","f","f","i","c","e">>,
       <<"h","e","a","d","q","u","a","r","t","e","r","s">>,
       <<"v","i","s","i","t"," ","u","s">>,
       <<"f","i","n","d"," ","u","s">>,
       <<"o","u","r"," ","l","o","c","a","t","i","o","n">>,
       <<"c","o","n","t","a","c","t"," ","a","d","d","r","e","s","s">>,
       <<"p","o","s","t","a","l"," ","a","d","d","r","e","s","s">>,
       <<"s","t","r","e","e","t">>,
       <<"b","u","i","l","d","i","n","g">>,
       <<"f","l","o","o","r">>,
       <<"s","u","i","t","e">>,
       <<"r","o","o","m">>,
       <<"b","l","o","c","k">>,
       <<"p","l","o","t">>,
       <<"c","i","t","y">>,
       <<"s","t","a","t","e">>,
       <<"c","o","u","n","t","r","y">>,
       <<"p","i","n">>,
       <<"z","i","p">>,
       <<"p","o","s","t","a","l"," ","c","o","d","e">> >>

---------------------------------------------------------------------------
(* The parsed document.  An attribute is a sequence of no or one value.    *)

NoAttrs == [a \in {"href", "data-email", "data-phone", "class", "itemtype"} |-> <<>>]

\* an element with no attribute
Elem(tag, string) == [tag |-> tag, attrs |-> NoAttrs, string |-> string]

\* an element with one attribute
ElemWith(tag, name, value, string) ==
    [tag |-> tag, attrs |-> [NoAttrs EXCEPT ![name] = <<value>>], string |-> string]

\* whether the element carries the attribute (the attrs={name: True} filter)
Has(node, name) == node.attrs[name] # <<>>

\* element.get(name) / element[name] of an attribute that is present
Attr(node, name) == node.attrs[name][1]

RECURSIVE get_text(_)
\* soup.get_text(): the text nodes concatenated
get_text(s) == IF s = <<>> THEN <<>> ELSE s[1].string \o get_text(Tail(s))

\* soup.find_all('a', href=True), in document order
Links(s) == SelectSeq(s, LAMBDA n : n.tag = "a" /\ Has(n, "href"))

\* soup.find_all(attrs={name: True}), in document order
WithAttr(s, name) == SelectSeq(s, LAMBDA n : Has(n, name))

---------------------------------------------------------------------------
(* clean_phone_numbers                                                     *)

\* the checks on digits_only without the timestamp check
KeepPhoneNoTimestampCheck(digits_only) ==
    IF Len(digits_only) < 7 \/ Len(digits_only) > 15 THEN FALSE
    ELSE IF \E p \in {<<"0","0","0","0">>, <<"1","1","1","1">>,
                      <<"2","2","2","2">>, <<"3","3","3","3">>} :
                StartsWith(digits_only, p) THEN FALSE
    ELSE TRUE

\* the four checks on digits_only: TRUE when none of them skips the number
KeepPhone(digits_only) ==
    IF Len(digits_only) < 7 \/ Len(digits_only) > 15 THEN FALSE
    ELSE IF \E p \in {<<"0","0","0","0">>, <<"1","1","1","1">>,
                      <<"2","2","2","2">>, <<"3","3","3","3">>} :
                StartsWith(digits_only, p) THEN FALSE
    ELSE IF Len(digits_only) = 4
            /\ \E p \in {<<"1","9">>, <<"2","0">>} : StartsWith(digits_only, p) THEN FALSE
    ELSE IF Len(digits_only) >= 10
            /\ \E p \in {<<"1","6">>, <<"1","7">>, <<"2","0">>} :
                  StartsWith(digits_only, p) THEN FALSE
    ELSE TRUE

RECURSIVE clean_phone_numbers(_)
clean_phone_numbers(raw_numbers) ==
    IF raw_numbers = <<>> THEN {}
    ELSE LET Cleaned(clean_num) ==
                 IF KeepPhone(SubDigits(clean_num)) THEN {clean_num} ELSE {}
         IN  Cleaned(SubSpaces(Strip(raw_numbers[1])))
                \cup clean_phone_numbers(Tail(raw_numbers))

---------------------------------------------------------------------------
(* extract_emails                                                          *)

\* href.replace('mailto:', '').split('?')[0].split('&')[0]
MailtoTarget(href) == Split(Split(ReplaceAll(href, S_mailto, <<>>), "?")[1], "&")[1]

\* the guard of both attribute sources: re.match(self.EMAIL_REGEX, email)
EmailGuard(email) == ReMatch(EMAIL_REGEX, email, FALSE)

extract_emails(s) ==
    LET found_emails == Range(FindAll(EMAIL_REGEX, get_text(s), TRUE))
        mailto == { MailtoTarget(Attr(n, "href")) :
                      n \in {l \in Range(Links(s)) : StartsWith(Attr(l, "href"), S_mailto)} }
        dataattr == { Attr(n, "data-email") : n \in Range(WithAttr(s, "data-email")) }
    IN  found_emails \cup {e \in mailto : EmailGuard(e)}
                     \cup {e \in dataattr : EmailGuard(e)}

---------------------------------------------------------------------------
(* extract_phones                                                          *)

\* raw_phones: the text matches, then the tel: targets, then data-phone
raw_phones(s) ==
    LET tel == SelectSeq(Links(s), LAMBDA l : StartsWith(Attr(l, "href"), <<"t","e","l",":">>))
        dat == WithAttr(s, "data-phone")
    IN  FindAll(PHONE_REGEX, get_text(s), FALSE)
          \o [i \in 1..Len(tel) |-> Strip(ReplaceAll(Attr(tel[i], "href"), <<"t","e","l",":">>, <<>>))]
          \o [i \in 1..Len(dat) |-> Attr(dat[i], "data-phone")]

extract_phones(s) == clean_phone_numbers(raw_phones(s))

---------------------------------------------------------------------------
(* extract_whatsapp                                                        *)

\* (\+?\d{7,15}), searched in a WhatsApp link target
WaLinkNumber == Pattern(<< Rep({"+"}, 0, 1), Rep(Digit, 7, 15) >>)

\* (\+?\d[\d\s()-]{7,15}), searched in a keyword element's text
WaElementNumber ==
    Pattern(<< Rep({"+"}, 0, 1), Rep(Digit, 1, 1),
               Rep(Digit \cup Space \cup {"(", ")", "-"}, 7, 15) >>)

\* re.compile('whatsapp|whats app|wa|w.a.', re.I): the dots match any character
WaKeywords ==
    LET any == RepNot({"\n"}, 1, 1)
    IN  << [pieces |-> Word(<<"w","h","a","t","s","a","p","p">>), group |-> 1],
           [pieces |-> Word(<<"w","h","a","t","s"," ","a","p","p">>), group |-> 1],
           [pieces |-> Word(<<"w","a">>), group |-> 1],
           [pieces |-> << Lit("w"), any, Lit("a"), any >>, group |-> 1] >>

\* the numbers of the keyword-anchored matches in the text
WaFromText(s) ==
    { m \in Range(FindAll(WHATSAPP_REGEX, get_text(s), TRUE)) : Len(SubDigits(m)) >= 7 }

\* the first digit run of every link that names a WhatsApp host
WaFromLinks(s) ==
    LET hosts == {<<"w","a",".","m","e">>,
                     <<"w","h","a","t","s","a","p","p",".","c","o","m">>,
                     <<"a","p","i",".","w","h","a","t","s","a","p","p",".","c","o","m">>}
        walinks == { Attr(l, "href") : l \in Range(Links(s)) }
        found(href) == ReSearch(WaLinkNumber, href, FALSE)
    IN  { Group(href, found(href)[1]) :
            href \in { h \in walinks : (\E w \in hosts : Contains(h, w)) /\ found(h) # <<>> } }

\* the digit sequences in the text of button, div and span elements whose
\* string matches a keyword
WaFromElements(s) ==
    LET elements == { n \in Range(s) : /\ n.tag \in {"button", "div", "span"}
                                       /\ ReSearch(WaKeywords, n.string, TRUE) # <<>> }
    IN  UNION { { num \in Range(FindAll(WaElementNumber, n.string, FALSE)) :
                    Len(SubDigits(num)) >= 7 } : n \in elements }

extract_whatsapp(s) == WaFromText(s) \cup WaFromLinks(s) \cup WaFromElements(s)

---------------------------------------------------------------------------
(* extract_urls                                                            *)

MEDIA_EXTENSIONS ==
    { <<".","j","p","g">>, <<".","p","n","g">>, <<".","c","s","s">>,
      <<".","j","s">>, <<".","p","d","f">>, <<".","j","p","e","g">>,
      <<".","s","v","g">>, <<".","g","i","f">>, <<".","i","c","o">> }

\* target.lower().endswith(('.jpg', '.png', ...))
IsMedia(target) == \E ext \in MEDIA_EXTENSIONS : EndsWith(Lower(target), ext)

\* the longest prefix of s with no character of stops
UpTo(s, stops) ==
    LET at == {i \in 1..Len(s) : s[i] \in stops}
    IN  IF at = {} THEN s ELSE SubSeq(s, 1, MinOf(at) - 1)

\* urlparse(base_url) of a URL that starts with http:// or https://, as every
\* URL does that scrape_contact_page passes on: its scheme and netloc
urlparse(base_url) ==
    LET Parsed(scheme) ==
            [scheme |-> Lower(scheme),
             netloc |-> UpTo(From(base_url, Len(scheme) + 4), {"/", "?", "#"})]
    IN  Parsed(UpTo(base_url, {":"}))

\* f"{parsed_base.scheme}://{parsed_base.netloc}"
BaseDomain(base_url) ==
    LET Root(parsed_base) == parsed_base.scheme \o <<":", "/", "/">> \o parsed_base.netloc
    IN  Root(urlparse(base_url))

\* urljoin(base_domain, href) for an href that starts with "/" and has no dot
\* segment and no empty query or fragment.  A target "//host/..." takes only
\* the scheme from the base, and urlsplit raises ValueError("Invalid IPv6
\* URL") when only one of "[" and "]" is in its host.
urljoin(base_domain, href) ==
    IF StartsWith(href, <<"/", "/">>)
    THEN LET Joined(netloc) ==
                 IF ("[" \in Range(netloc)) # ("]" \in Range(netloc))
                 THEN [raised |-> TRUE, value |-> <<>>]
                 ELSE [raised |-> FALSE,
                       value |-> UpTo(base_domain, {":"}) \o <<":">> \o href]
         IN  Joined(UpTo(From(href, 3), {"/", "?", "#"}))
    ELSE [raised |-> FALSE, value |-> base_domain \o href]

\* the URLs of the text scan that pass the media filter
UrlsFromText(s) ==
    LET punctuation_chars == {".", ",", ";", ":", ")", "]", "}", ">", "\"", "'"}
        clean == { RStrip(u, punctuation_chars) :
                     u \in Range(FindAll(URL_REGEX, get_text(s), FALSE)) }
    IN  { c \in clean : ~IsMedia(c) }

\* the absolute anchor targets that pass the media filter
UrlsFromAbsoluteLinks(s) ==
    { h \in { Attr(l, "href") : l \in Range(Links(s)) } :
        StartsWith(h, <<"h","t","t","p">>) /\ ~IsMedia(h) }

\* the anchor targets of the elif branch, each joined to the site root
UrlsFromRelativeLinks(s, base_domain) ==
    { urljoin(base_domain, h) :
        h \in { x \in { Attr(l, "href") : l \in Range(Links(s)) } :
                  ~StartsWith(x, <<"h","t","t","p">>) /\ StartsWith(x, <<"/">>) } }

\* extract_urls: [raised, value], raised when urljoin raises
extract_urls(s, base_url) ==
    LET Urls(base_domain, joined) ==
            IF \E j \in joined : j.raised
            THEN [raised |-> TRUE, value |-> {}]
            ELSE [raised |-> FALSE,
                  value |-> {base_domain} \cup UrlsFromText(s) \cup UrlsFromAbsoluteLinks(s)
                              \cup { j.value : j \in joined }]
    IN  Urls(BaseDomain(base_url), UrlsFromRelativeLinks(s, BaseDomain(base_url)))

---------------------------------------------------------------------------
(* extract_addresses                                                       *)

address_classes ==
    << <<"a","d","d","r","e","s","s">>,
       <<"l","o","c","a","t","i","o","n">>,
       <<"c","o","n","t","a","c","t","-","i","n","f","o">>,
       <<"o","f","f","i","c","e","-","a","d","d","r","e","s","s">> >>

locality_keywords ==
    { <<"s","t","r","e","e","t">>, <<"r","o","a","d">>, <<"a","v","e","n","u","e">>,
      <<"c","i","t","y">>, <<"t","o","w","n">> }

\* r'\d{5,6}', r'\d{3}\s*\d{3}', r'[A-Z]{1,2}\d{1,2}[A-Z]?\s*\d[A-Z]{2}'
postal_patterns ==
    << Pattern(<< Rep(Digit, 5, 6) >>),
       Pattern(<< Rep(Digit, 3, 3), Rep(Space, 0, -1), Rep(Digit, 3, 3) >>),
       Pattern(<< Rep(Range(UPPER), 1, 2), Rep(Digit, 1, 2), Rep(Range(UPPER), 0, 1),
                  Rep(Space, 0, -1), Rep(Digit, 1, 1), Rep(Range(UPPER), 2, 2) >>) >>

\* element.get_text(separator=' ', strip=True) of an element with one string
ElementText(n) == Strip(n.string)

\* Strategy 1: <address> tags
AddressesFromTags(s) ==
    { t \in { ElementText(n) : n \in { x \in Range(s) : x.tag = "address" } } : Len(t) > 10 }

\* Strategy 2: elements whose class matches one of address_classes
AddressesFromClasses(s) ==
    { t \in { ElementText(n) :
                n \in { x \in Range(WithAttr(s, "class")) :
                          \E c \in Range(address_classes) :
                              Contains(Lower(Attr(x, "class")), c) } } :
        15 < Len(t) /\ Len(t) < 400 }

\* Strategy 3: schema.org markup, itemtype matching 'address'
AddressesFromItemtype(s) ==
    { t \in { ElementText(n) :
                n \in { x \in Range(WithAttr(s, "itemtype")) :
                          Contains(Lower(Attr(x, "itemtype")), <<"a","d","d","r","e","s","s">>) } } :
        Len(t) > 10 }

\* [l.strip() for l in lines if l.strip()]
StrippedNonEmpty(lines) ==
    SelectSeq([i \in 1..Len(lines) |-> Strip(lines[i])], LAMBDA l : l # <<>>)

\* Strategy 4: a keyword line with the line before it and the three after it
AddressesFromKeywordLines(s) ==
    LET text_lines == Split(get_text(s), "\n")
        n == Len(text_lines)
        hit(i) == LET l == Strip(text_lines[i])
                  IN  l # <<>> /\ \E k \in Range(ADDRESS_KEYWORDS) : Contains(Lower(l), k)
        context(i) ==
            Join(<<" ">>,
                 StrippedNonEmpty(SubSeq(text_lines,
                                         IF i - 1 < 1 THEN 1 ELSE i - 1,
                                         IF i + 3 > n THEN n ELSE i + 3)))
    IN  { c \in { context(i) : i \in { j \in 1..n : hit(j) } } :
            20 < Len(c) /\ Len(c) < 500 }

\* Strategy 5: the 100 characters on both sides of a postal code, kept when
\* they name a street or locality
AddressesFromPostalCodes(s) ==
    LET text == get_text(s)
        matches == UNION { Range(FindIter(pattern, text, 1, FALSE)) :
                             pattern \in Range(postal_patterns) }
        context(m) ==
            Strip(SubSeq(text,
                         IF m.start - 1 - 100 < 0 THEN 1 ELSE m.start - 100,
                         IF m.end - 1 + 100 > Len(text) THEN Len(text) ELSE m.end - 1 + 100))
        address_lines(c) ==
            SelectSeq(StrippedNonEmpty(Split(c, "\n")), LAMBDA l : Len(l) > 5)
        full_address(c) == Join(<<" ">>, address_lines(c))
        confirmed == { c \in { context(m) : m \in matches } :
                         /\ \E k \in locality_keywords : Contains(Lower(c), k)
                         /\ address_lines(c) # <<>> }
    IN  { a \in { full_address(c) : c \in confirmed } : 30 < Len(a) /\ Len(a) < 300 }

extract_addresses(s) ==
    AddressesFromTags(s) \cup AddressesFromClasses(s) \cup AddressesFromItemtype(s)
        \cup AddressesFromKeywordLines(s) \cup AddressesFromPostalCodes(s)

---------------------------------------------------------------------------
(* scrape_contact_page and _empty_result                                   *)

S_success == <<"s","u","c","c","e","s","s">>
S_timeout == <<"t","i","m","e","o","u","t">>
S_connection_error == <<"c","o","n","n","e","c","t","i","o","n","_","e","r","r","o","r">>
S_request_error == <<"r","e","q","u","e","s","t","_","e","r","r","o","r">>
S_unexpected_error == <<"u","n","e","x","p","e","c","t","e","d","_","e","r","r","o","r">>
S_failed == <<"f","a","i","l","e","d">>

Fields == {"emails", "phones", "whatsapp", "urls", "addresses"}

_empty_result(status) ==
    [emails |-> {}, phones |-> {}, whatsapp |-> {}, urls |-> {}, addresses |-> {},
     status |-> status]

\* What session.get did: it raised (kind names the except clause that catches
\* it) or it returned a response.
Raised(kind) == [kind |-> kind, status_code |-> 0, content_type |-> <<>>, content |-> <<>>]
Response(status_code, content_type, content) ==
    [kind |-> "response", status_code |-> status_code, content_type |-> content_type,
     content |-> content]

\* the URL as normalized at the top of scrape_contact_page
NormalizeUrl(u) ==
    IF StartsWith(u, S_http_scheme) \/ StartsWith(u, S_https_scheme) THEN u
    ELSE S_https_scheme \o u

\* whether the try block reaches BeautifulSoup(response.content, 'html.parser')
ReachesParse(f) ==
    /\ f.kind = "response"
    /\ f.status_code = 200
    /\ Contains(f.content_type, S_text_html)

\* the record built from the five detectors, or the record of the
\* except Exception clause when a detector raises
Aggregate(s, base_url) ==
    LET Record(urls) ==
            IF urls.raised THEN _empty_result(S_unexpected_error)
            ELSE [emails |-> extract_emails(s),
                  phones |-> extract_phones(s),
                  whatsapp |-> extract_whatsapp(s),
                  urls |-> urls.value,
                  addresses |-> extract_addresses(s),
                  status |-> S_success]
    IN  Record(extract_urls(s, base_url))

\* scrape_contact_page(url), f being what session.get does
scrape_contact_page(u, f) ==
    IF f.kind = "Timeout" THEN _empty_result(S_timeout)
    ELSE IF f.kind = "ConnectionError" THEN _empty_result(S_connection_error)
    ELSE IF f.kind = "RequestException" THEN _empty_result(S_request_error)
    ELSE IF f.kind = "Exception" THEN _empty_result(S_unexpected_error)
    ELSE IF f.status_code # 200 THEN _empty_result(S_failed)
    ELSE IF ~Contains(f.content_type, S_text_html) THEN _empty_result(S_failed)
    ELSE Aggregate(f.content, NormalizeUrl(u))

---------------------------------------------------------------------------
(* save_to_excel and print_results                                         *)

S_sep == <<" ","|"," ">>
S_not_found == <<"N","o","t"," ","F","o","u","n","d">>

HEADER ==
    << <<"U","R","L">>,
       <<"S","t","a","t","u","s">>,
       <<"E","m","a","i","l","s">>,
       <<"P","h","o","n","e"," ","N","u","m","b","e","r","s">>,
       <<"W","h","a","t","s","A","p","p"," ","N","u","m","b","e","r","s">>,
       <<"W","e","b","s","i","t","e"," ","U","R","L","s">>,
       <<"A","d","d","r","e","s","s","e","s">> >>

Absent == [exists |-> FALSE, rows |-> <<>>]

\* the orders in which iterating a set may yield its elements
Perms(S) == { f \in [1..Cardinality(S) -> S] : Range(f) = S }

\* one iteration order for each of the five sets of a record
Orders(d) == [emails : Perms(d.emails), phones : Perms(d.phones),
              whatsapp : Perms(d.whatsapp), urls : Perms(d.urls),
              addresses : Perms(d.addresses)]

\* items[:n]
Take(items, n) == SubSeq(items, 1, IF Len(items) < n THEN Len(items) ELSE n)

\* row_data without the [:3] and [:2] limits
row_data_unlimited(u, d, order) ==
    << u,
       d.status,
       IF d.emails # {} THEN Join(S_sep, order.emails) ELSE S_not_found,
       IF d.phones # {} THEN Join(S_sep, order.phones) ELSE S_not_found,
       IF d.whatsapp # {} THEN Join(S_sep, order.whatsapp) ELSE S_not_found,
       IF d.urls # {} THEN Join(S_sep, order.urls) ELSE u,
       IF d.addresses # {} THEN Join(S_sep, order.addresses) ELSE S_not_found >>

\* row_data, order giving the iteration order of each set
row_data(u, d, order) ==
    << u,
       d.status,
       IF d.emails # {} THEN Join(S_sep, order.emails) ELSE S_not_found,
       IF d.phones # {} THEN Join(S_sep, order.phones) ELSE S_not_found,
       IF d.whatsapp # {} THEN Join(S_sep, order.whatsapp) ELSE S_not_found,
       IF d.urls # {} THEN Join(S_sep, Take(order.urls, 3)) ELSE u,
       IF d.addresses # {} THEN Join(S_sep, Take(order.addresses, 2)) ELSE S_not_found >>

\* save_to_excel that starts a new sheet on every call
save_to_excel_new_sheet(st, u, d, order) ==
    [exists |-> TRUE, rows |-> << HEADER, row_data(u, d, order) >>]

\* the sheet save_to_excel saves: the loaded one, or a new one with the header
\* when load_workbook raises FileNotFoundError, with row_data appended
save_to_excel(st, u, d, order) ==
    LET ws == IF st.exists THEN st.rows ELSE <<HEADER>>
    IN  [exists |-> TRUE, rows |-> Append(ws, row_data(u, d, order))]

Blank == [status |-> <<>>, counts |-> [f \in Fields |-> 0], urls_shown |-> 0,
          urls_more |-> 0, addresses_shown |-> 0, addresses_more |-> 0]

\* what print_results renders: the status, the count of each category, and how
\* many URLs and addresses it lists and leaves out
print_results(u, d) ==
    LET n(f) == Cardinality(d[f])
    IN  [status |-> d.status,
         counts |-> [f \in Fields |-> n(f)],
         urls_shown |-> IF n("urls") > 5 THEN 5 ELSE n("urls"),
         urls_more |-> IF n("urls") > 5 THEN n("urls") - 5 ELSE 0,
         addresses_shown |-> IF n("addresses") > 3 THEN 3 ELSE n("addresses"),
         addresses_more |-> IF n("addresses") > 3 THEN n("addresses") - 3 ELSE 0]

---------------------------------------------------------------------------
(* main: one interaction cycle is prompt, scrape, print, save              *)

\* the rows of the store a cycle may still add to stay at most MaxRows
MaxRows == 2

L_a == <<"a",".","i","o">>
L_b == <<"h","t","t","p",":","/","/","b",".","i","o","/","c">>

\* the lines the user may type
Lines == {<<"e","x","i","t">>, <<" ","E","x","i","t"," ">>, <<>>, <<" "," ">>, L_a, L_b}

CT_html == <<"t","e","x","t","/","h","t","m","l",";"," ","c","h","a","r","s","e","t","=","u","t","f","-","8">>
CT_pdf == <<"a","p","p","l","i","c","a","t","i","o","n","/","p","d","f">>

H_bad == <<"/","/","[","x">>

\* a page with a mailto link and a phone number
PageContact ==
    << ElemWith("a", "href", <<"m","a","i","l","t","o",":","s","@","e",".","i","o">>,
                <<"M","a","i","l"," ">>),
       Elem("p", <<"c","a","l","l"," ","5","5","5","1","2","3","4","5","6","7">>) >>
\* the same page with one more anchor, whose target is //[x
PageBadLink == PageContact \o << ElemWith("a", "href", H_bad, <<"x">>) >>
\* a page with one relative link
PageAbout == << ElemWith("a", "href", <<"/","a","b","o","u","t">>, <<"x">>) >>

\* what session.get may do
FetchOutcomes ==
    { Raised(k) : k \in {"Timeout", "ConnectionError", "RequestException", "Exception"} }
        \cup { Response(404, CT_html, <<>>), Response(200, CT_pdf, <<>>),
               Response(200, <<>>, <<>>) }
        \cup { Response(200, CT_html, p) : p \in {<<>>, PageContact, PageBadLink, PageAbout} }

NoFetch == Raised("none")
NoData == _empty_result(<<>>)

\* the number of data rows in the store
DataRows(st) == IF st.exists THEN Len(st.rows) - 1 ELSE 0

\* the loop without the empty test
next_pc_no_empty_test(u) ==
    IF Lower(u) = S_exit THEN "done" ELSE "scrape"

\* where the loop goes with the stripped input: the exit test, then the
\* empty test
next_pc(u) ==
    IF Lower(u) = S_exit THEN "done"
    ELSE IF u = <<>> THEN "prompt"
    ELSE "scrape"

Init ==
    /\ pc = "prompt"
    /\ line = <<>>
    /\ url = <<>>
    /\ fetched = NoFetch
    /\ parsed = FALSE
    /\ soup = <<>>
    /\ data = NoData
    /\ console = Blank
    /\ store = Absent
    /\ saved = <<>>
    /\ trace = <<>>

\* url = input(...).strip() and the two tests on it
ReadInput ==
    /\ pc = "prompt"
    /\ \E l \in Lines :
          /\ next_pc(Strip(l)) = "scrape" => DataRows(store) < MaxRows
          /\ line' = l
          /\ url' = Strip(l)
          /\ pc' = next_pc(Strip(l))
    /\ fetched' = NoFetch
    /\ parsed' = FALSE
    /\ soup' = <<>>
    /\ data' = NoData
    /\ console' = Blank
    /\ trace' = <<>>
    /\ UNCHANGED <<store, saved>>

\* data = scraper.scrape_contact_page(url)
Scrape ==
    /\ pc = "scrape"
    /\ \E f \in FetchOutcomes :
          /\ fetched' = f
          /\ parsed' = ReachesParse(f)
          /\ soup' = IF ReachesParse(f) THEN f.content ELSE <<>>
          /\ data' = scrape_contact_page(url, f)
    /\ trace' = Append(trace, "scrape")
    /\ pc' = "print"
    /\ UNCHANGED <<line, url, console, store, saved>>

\* scraper.print_results(url, data)
PrintResults ==
    /\ pc = "print"
    /\ console' = print_results(url, data)
    /\ trace' = Append(trace, "print")
    /\ pc' = "save"
    /\ UNCHANGED <<line, url, fetched, parsed, soup, data, store, saved>>

\* scraper.save_to_excel(url, data), completed
SaveToExcel ==
    /\ pc = "save"
    /\ \E order \in Orders(data) :
          /\ store' = save_to_excel(store, url, data, order)
          /\ saved' = Append(saved, row_data(url, data, order))
    /\ trace' = Append(trace, "save")
    /\ pc' = "prompt"
    /\ UNCHANGED <<line, url, fetched, parsed, soup, data, console>>

\* except Exception: a call of the try block raises (the console or the
\* workbook file fails); the store is as it was and the loop continues
CallRaises ==
    /\ pc \in {"scrape", "print", "save"}
    /\ trace' = Append(trace, "Exception")
    /\ pc' = "prompt"
    /\ UNCHANGED <<line, url, fetched, parsed, soup, data, console, store, saved>>

\* except KeyboardInterrupt: the user interrupts a call of the try block
KeyboardInterrupt ==
    /\ pc \in {"scrape", "print", "save"}
    /\ trace' = Append(trace, "KeyboardInterrupt")
    /\ pc' = "done"
    /\ UNCHANGED <<line, url, fetched, parsed, soup, data, console, store, saved>>

Next ==
    \/ ReadInput
    \/ Scrape
    \/ PrintResults
    \/ SaveToExcel
    \/ CallRaises
    \/ KeyboardInterrupt

Spec == Init /\ [][Next]_vars

---------------------------------------------------------------------------
(* Properties of the aggregator and of the loop of main                    *)

S_non_html == <<"n","o","n","_","h","t","m","l">>
S_http_error == <<"h","t","t","p","_","e","r","r","o","r">>

\* scrape_contact_page has returned in the current cycle
Scraped == trace # <<>> /\ trace[1] = "scrape"

AllEmpty(d) == \A f \in Fields : d[f] = {}

\* the status label of a fetch that does not succeed
OutcomeLabel(f) ==
    CASE f.kind = "Timeout" -> S_timeout
      [] f.kind = "ConnectionError" -> S_connection_error
      [] f.kind = "RequestException" -> S_request_error
      [] f.kind = "Exception" -> S_unexpected_error
      [] f.kind = "response" /\ f.status_code # 200 -> S_http_error
      [] OTHER -> S_non_html

\* C1: the record of a fetch that does not succeed has its five sets empty and
\* the label of the outcome as its status; a record with a non-empty set has
\* status success.
C1_FailureRecord ==
    Scraped =>
        /\ ~ReachesParse(fetched) =>
              /\ AllEmpty(data)
              /\ data.status = OutcomeLabel(fetched)
        /\ ~AllEmpty(data) => data.status = S_success

\* C2: a response that is not HTML or not a 200 is not parsed, and its record
\* is the empty one with status non_html, respectively http_error.
C2_ResponseClassified ==
    (Scraped /\ fetched.kind = "response" /\ ~ReachesParse(fetched)) =>
        /\ ~parsed
        /\ AllEmpty(data)
        /\ data.status = IF fetched.status_code # 200 THEN S_http_error ELSE S_non_html

\* C5: the record of a page that was fetched and parsed has status success and
\* holds what each detector finds on the page, a malformed attribute counting
\* as no candidate from its source.
C5_DetectorFailureContained ==
    (Scraped /\ parsed) =>
        /\ data.status = S_success
        /\ data.emails = extract_emails(soup)
        /\ data.phones = extract_phones(soup)
        /\ data.whatsapp = extract_whatsapp(soup)
        /\ data.addresses = extract_addresses(soup)

\* the three calls of the try block, in order
Cycle == <<"scrape", "print", "save">>

\* C6 as stated: the sentinel ends the loop with no call made, an empty input
\* is followed by the prompt with no call made, and at the prompt after any
\* other input exactly scrape, print, save have been called, in this order.
C6_EveryInputCompletes ==
    /\ (pc = "done" /\ Lower(url) = S_exit) => trace = <<>>
    /\ Lower(url) = S_exit => pc = "done"
    /\ url = <<>> => pc = "prompt" /\ trace = <<>>
    /\ (pc = "prompt" /\ url # <<>>) => trace = Cycle

\* C6 amended: the input is trimmed and the sentinel compared without regard
\* to case.  The sentinel ends the loop with no call made; an input that is
\* empty after trimming is followed by the prompt with no call made; after
\* any other input the calls made are scrape, print, save in this order, all
\* three at the next prompt with the row of that URL saved last, unless a
\* call raised (the loop prompts again) or was interrupted (the loop ends).
C6_Loop ==
    /\ url = Strip(line)
    /\ Lower(url) = S_exit => pc = "done" /\ trace = <<>>
    /\ url = <<>> => pc = "prompt" /\ trace = <<>>
    /\ (url # <<>> /\ Lower(url) # S_exit) =>
          LET n == Len(trace)
              calls == IF n > 0 /\ trace[n] \in {"Exception", "KeyboardInterrupt"}
                       THEN SubSeq(trace, 1, n - 1) ELSE trace
          IN  /\ calls = SubSeq(Cycle, 1, Len(calls))
              /\ pc = "prompt" => \/ trace = Cycle /\ saved[Len(saved)][1] = url
                                  \/ (n > 0 /\ n <= 3 /\ trace[n] = "Exception")
              /\ pc = "done" => (n > 0 /\ n <= 3 /\ trace[n] = "KeyboardInterrupt")
              /\ pc = "scrape" => trace = <<>>
              /\ pc = "print" => trace = <<"scrape">>
              /\ pc = "save" => trace = <<"scrape", "print">>

\* a cycle has completed for a typed URL
C6_Witness ==
    /\ pc = "prompt"
    /\ url = L_a
    /\ trace = Cycle
    /\ data.status = S_success
    /\ store.rows[Len(store.rows)][1] = L_a

\* C10: while no save_to_excel call has completed the store is absent; after
\* n completed calls it holds the header row followed by the rows of the n
\* calls in call order, each with the URL of its call.
C10_StoreRows ==
    /\ ~store.exists => saved = <<>> /\ store.rows = <<>>
    /\ store.exists =>
          /\ Len(store.rows) = Len(saved) + 1
          /\ store.rows[1] = HEADER
          /\ \A i \in 1..Len(saved) : store.rows[i + 1] = saved[i]
    /\ (pc = "prompt" /\ trace = Cycle) =>
          /\ store.exists
          /\ store.rows[Len(store.rows)][1] = url
          /\ store.rows[Len(store.rows)][2] = data.status

\* two calls have completed, for two different URLs
C10_Witness ==
    /\ pc = "prompt"
    /\ Len(saved) = 2
    /\ store.rows[2][1] = L_a
    /\ store.rows[3][1] = L_b

---------------------------------------------------------------------------
(* The detectors called on their own: a document is arranged and the       *)
(* detector is called on it.                                               *)

\* the longest digit run the arranged documents add to a prefix
MaxDigits == 14

\* a run of n digits: 5, 6, 7, 8, 9, 0, 1, ...
DigitRun(n) == [i \in 1..n |-> DIGITS[((i + 4) % 10) + 1]]

InitUnit ==
    /\ pc = "arrange"
    /\ line = <<>>
    /\ url = <<>>
    /\ fetched = NoFetch
    /\ parsed = FALSE
    /\ soup = <<>>
    /\ data = NoData
    /\ console = Blank
    /\ store = Absent
    /\ saved = <<>>
    /\ trace = <<>>

\* the document and base URL of the call
Arrange(pages, bases) ==
    /\ pc = "arrange"
    /\ \E p \in pages, b \in bases :
          /\ soup' = p
          /\ url' = b
    /\ data' = NoData
    /\ pc' = "act"
    /\ UNCHANGED <<line, fetched, parsed, console, store, saved, trace>>

\* the call returns d
Return(d) ==
    /\ pc = "act"
    /\ data' = d
    /\ pc' = "called"
    /\ UNCHANGED <<line, url, fetched, parsed, soup, console, store, saved, trace>>

---------------------------------------------------------------------------
(* extract_phones and clean_phone_numbers on their own                     *)

N_year1 == <<"1","9","8","4">>
N_year2 == <<"2","0","0","1">>
N_ts == <<"1","6","9","9","9","9","9","9","9","9">>
N_zero == <<"0","0","0","0","1","2","3","4","5","6","7","8","9">>
N_ok == <<"5","5","5","1","2","3","4","5","6","7">>

PhonePrefixes ==
    { <<>>, <<"0","0","0","0">>, <<"1","1","1","1">>, <<"2","2","2","2">>,
      <<"3","3","3","3">>, <<"4","4","4","4">>, <<"1","9">>, <<"2","0">>,
      <<"1","6">>, <<"1","7">>, <<"1","8">>, <<"+","1"," ">>, <<" ","(","0",")"," "," ">> }

PhoneExamples ==
    { N_year1, N_year2, N_ts, N_zero, N_ok,
      <<" ","+","1"," ","4","1","5"," "," ","5","5","5","\t","0","1","0","0"," ">> }

PhoneNumbers ==
    PhoneExamples \cup { p \o DigitRun(n) : p \in PhonePrefixes, n \in 0..MaxDigits }

\* a number as page text, as a tel: target and as a data-phone value
PhoneNode(kind, num) ==
    CASE kind = "text" -> Elem("p", num)
      [] kind = "tel" -> ElemWith("a", "href", <<"t","e","l",":">> \o num, <<>>)
      [] kind = "data" -> ElemWith("span", "data-phone", num, <<>>)

PhonePages ==
    { << PhoneNode(k, n) >> : k \in {"text", "tel", "data"}, n \in PhoneNumbers }
        \cup { << PhoneNode("tel", a), PhoneNode("data", b) >> :
                 a \in PhoneExamples, b \in PhoneExamples }

ArrangePhones == Arrange(PhonePages, {<<>>})

CallExtractPhones == Return([NoData EXCEPT !.phones = extract_phones(soup)])

NextPhones == ArrangePhones \/ CallExtractPhones

SpecPhones == InitUnit /\ [][NextPhones]_vars

\* the digits-only form of a candidate
DigitsOf(c) == SelectSeq(c, LAMBDA ch : ch \in Digit)

\* conditions (a) to (d) on a digits-only form
Plausible(d) ==
    /\ 7 <= Len(d) /\ Len(d) <= 15
    /\ ~(Len(d) >= 4 /\ d[1] \in {"0", "1", "2", "3"}
           /\ d[2] = d[1] /\ d[3] = d[1] /\ d[4] = d[1])
    /\ ~(Len(d) = 4 /\ <<d[1], d[2]>> \in {<<"1","9">>, <<"2","0">>})
    /\ ~(Len(d) >= 10 /\ <<d[1], d[2]>> \in {<<"1","6">>, <<"1","7">>, <<"2","0">>})

\* C3: the phone set is exactly the whitespace-normalized forms of the raw
\* candidates (text matches, tel: targets, data-phone values) whose digits
\* pass (a) to (d); of the examples only 5551234567 is retained.
C3_PhoneFilter ==
    pc = "called" =>
        LET raw == Range(raw_phones(soup))
        IN  /\ data.phones = { SubSpaces(Strip(c)) : c \in {r \in raw : Plausible(DigitsOf(r))} }
            /\ \A e \in {N_year1, N_year2, N_ts, N_zero} : e \notin data.phones
            /\ N_ok \in raw => N_ok \in data.phones

\* a call on a page that holds the timestamp-like example and the plausible
\* one: only the plausible one is returned
C3_Witness ==
    /\ pc = "called"
    /\ {N_ts, N_ok} \subseteq Range(raw_phones(soup))
    /\ data.phones = {N_ok}

---------------------------------------------------------------------------
(* extract_whatsapp on its own                                             *)

H_wa == <<"h","t","t","p","s",":","/","/","w","a",".","m","e","/">>

\* the lengths of the digit runs after a keyword or in a link
WaLengths == 5..(MaxDigits + 3)

WhatsappPages ==
    { << Elem("p", k \o DigitRun(n)) >> :
        k \in {<<"W","h","a","t","s","A","p","p",":"," ">>,
               <<"W","h","a","t","s"," ","A","p","p"," ">>,
               <<"w","a"," ">>, <<"W",".","A","."," ","+">>,
               <<"p","h","o","n","e"," ">>},
        n \in WaLengths }
      \cup { << ElemWith("a", "href", h \o DigitRun(n), <<>>) >> :
               h \in {H_wa,
                      <<"h","t","t","p","s",":","/","/","a","p","i",".","w","h","a","t","s","a","p","p",
                        ".","c","o","m","/","s","e","n","d","?","p","h","o","n","e","=">>},
               n \in WaLengths }
      \cup { << Elem(t, <<"C","h","a","t"," ","o","n"," ","W","h","a","t","s","A","p","p"," ">>
                           \o DigitRun(n)) >> :
               t \in {"button", "div", "p"}, n \in WaLengths }

ArrangeWhatsapp == Arrange(WhatsappPages, {<<>>})

CallExtractWhatsapp == Return([NoData EXCEPT !.whatsapp = extract_whatsapp(soup)])

NextWhatsapp == ArrangeWhatsapp \/ CallExtractWhatsapp

SpecWhatsapp == InitUnit /\ [][NextWhatsapp]_vars

\* C8: every value extract_whatsapp returns has between 7 and 15 digits.
C8_WhatsappDigits ==
    pc = "called" =>
        \A v \in data.whatsapp : 7 <= Len(DigitsOf(v)) /\ Len(DigitsOf(v)) <= 15

---------------------------------------------------------------------------
(* extract_emails on its own                                               *)

\* addresses and strings that are none: local part, domain, what follows
EmailCandidates ==
    { l \o <<"@">> \o d \o x :
        l \in {<<"s">>, <<"a",".","b">>, <<>>},
        d \in {<<"e",".","i","o">>, <<"x",".","e",".","i","o">>, <<"e">>, <<"e",".","i">>},
        x \in {<<>>, <<"!","!">>, <<" ","x">>, <<">">>, <<"?","s","=","1">>, <<"&","b","=","2">>} }

EmailNode(kind, c) ==
    CASE kind = "text" -> Elem("p", c)
      [] kind = "mailto" -> ElemWith("a", "href", S_mailto \o c, <<>>)
      [] kind = "data" -> ElemWith("span", "data-email", c, <<>>)

EmailPages == { << EmailNode(k, c) >> : k \in {"text", "mailto", "data"}, c \in EmailCandidates }

ArrangeEmails == Arrange(EmailPages, {<<>>})

CallExtractEmails == Return([NoData EXCEPT !.emails = extract_emails(soup)])

NextEmails == ArrangeEmails \/ CallExtractEmails

SpecEmails == InitUnit /\ [][NextEmails]_vars

\* the candidates the two attribute sources take from the page
AttributeCandidates(s) ==
    { MailtoTarget(Attr(n, "href")) :
        n \in { l \in Range(s) : l.tag = "a" /\ Has(l, "href")
                                  /\ StartsWith(Attr(l, "href"), S_mailto) } }
      \cup { Attr(n, "data-email") : n \in { l \in Range(s) : Has(l, "data-email") } }

\* C9: a candidate from a mailto: target or a data-email attribute is in the
\* email set only if the whole of it matches the email pattern.
C9_WholeCandidateMatches ==
    pc = "called" =>
        \A c \in AttributeCandidates(soup) :
            c \in data.emails => ReFullMatch(EMAIL_REGEX, c, FALSE)

---------------------------------------------------------------------------
(* extract_urls on its own                                                 *)

P_abs == <<"h","t","t","p","s",":","/","/","e",".","i","o","/","i","m","g">>
P_other == <<"h","t","t","p",":","/","/","x",".","i","o","/","p","a","g","e">>

\* the endings of the targets: the nine extensions, two in capitals, and
\* three endings that are none
UrlEndings ==
    MEDIA_EXTENSIONS \cup { <<".","P","N","G">>, <<".","J","s">>, <<>>,
                            <<".","h","t","m","l">>, <<".","p","n","g","x">> }

UrlPages ==
    { << Elem("p", t \o e \o x) >> :
        t \in {P_abs, P_other}, e \in UrlEndings, x \in {<<>>, <<".">>, <<")",",">>} }
      \cup { << ElemWith("a", "href", t \o e, <<"x">>) >> :
               t \in {P_abs, P_other, <<"/","l","o","g","o">>,
                      <<"/","/","c","d","n",".","i","o","/","l","i","b">>},
               e \in UrlEndings }
      \cup { << ElemWith("a", "href", H_bad, <<"x">>) >> }

ArrangeUrls ==
    Arrange(UrlPages,
            {<<"h","t","t","p","s",":","/","/","e",".","i","o","/","c","o","n","t","a","c","t">>,
             <<"h","t","t","p",":","/","/","b",".","i","o">>})

CallExtractUrls ==
    Return(LET r == extract_urls(soup, url)
           IN  [NoData EXCEPT !.urls = r.value,
                              !.status = IF r.raised
                                         THEN <<"V","a","l","u","e","E","r","r","o","r">>
                                         ELSE <<>>])

NextUrls == ArrangeUrls \/ CallExtractUrls

SpecUrls == InitUnit /\ [][NextUrls]_vars

\* the scheme and host of a URL that starts with http:// or https://
SiteRoot(u) ==
    LET cut == {i \in 9..Len(u) : u[i] \in {"/", "?", "#"}}
    IN  IF cut = {} THEN u ELSE SubSeq(u, 1, MinOf(cut) - 1)

\* C4: no URL that extract_urls returns, the seeded site root apart, ends in
\* one of the nine media extensions, whichever source produced it.
C4_NoMediaTargets ==
    pc = "called" =>
        \A u \in data.urls \ {SiteRoot(url)} :
            \A ext \in MEDIA_EXTENSIONS : ~EndsWith(u, ext)

---------------------------------------------------------------------------
(* save_to_excel on its own, on a store that is absent                     *)

\* a page with an email, a phone number, a WhatsApp link, three absolute
\* links and three <address> elements
PageRich ==
    PageContact \o
    << ElemWith("a", "href", H_wa \o DigitRun(10), <<>>),
       ElemWith("a", "href", P_abs, <<>>),
       ElemWith("a", "href", P_other, <<>>),
       Elem("address", <<"1"," ","M","a","i","n"," ","R","o","a","d",","," ">>),
       Elem("address", <<"2","2"," ","O","a","k"," ","A","v","e","n","u","e",","," ">>),
       Elem("address", <<"3","3","3"," ","E","l","m"," ","S","t","r","e","e","t"," ">>) >>

\* what session.get may do, the page PageRich among those it may return
SinkOutcomes == FetchOutcomes \cup { Response(200, CT_html, PageRich) }

\* the record of one scrape, to be saved in a store that is absent
ArrangeRecord ==
    /\ pc = "arrange"
    /\ \E u \in {L_a, L_b}, f \in SinkOutcomes :
          /\ url' = u
          /\ fetched' = f
          /\ parsed' = ReachesParse(f)
          /\ soup' = IF ReachesParse(f) THEN f.content ELSE <<>>
          /\ data' = scrape_contact_page(u, f)
    /\ pc' = "act"
    /\ UNCHANGED <<line, console, store, saved, trace>>

CallSaveToExcel ==
    /\ pc = "act"
    /\ \E order \in Orders(data) :
          /\ store' = save_to_excel(store, url, data, order)
          /\ saved' = Append(saved, row_data(url, data, order))
    /\ pc' = "called"
    /\ UNCHANGED <<line, url, fetched, parsed, soup, data, console, trace>>

NextSink == ArrangeRecord \/ CallSaveToExcel

SpecSink == InitUnit /\ [][NextSink]_vars

\* the cells that join at most n elements of the set S
Joins(S, n) == UNION { { Join(S_sep, items) : items \in [1..k -> S] } : k \in 1..n }

\* the row the call appended
LastRow == store.rows[Len(store.rows)]

\* C7 as stated: the row of a record whose five sets are empty holds
\* "Not Found" in all five category columns.
C7_AllPlaceholders ==
    (pc = "called" /\ AllEmpty(data)) =>
        \A col \in 3..7 : LastRow[col] = S_not_found

\* C7 amended: the row of a record whose five sets are empty holds "Not Found"
\* in the emails, phones, whatsapp and addresses columns and the URL as typed
\* in the urls column; the row of any other record joins at most 3 urls and
\* at most 2 addresses.
C7_RowCells ==
    pc = "called" =>
        /\ AllEmpty(data) =>
              /\ \A col \in {3, 4, 5, 7} : LastRow[col] = S_not_found
              /\ LastRow[6] = url
        /\ ~AllEmpty(data) =>
              /\ LastRow[6] \in Joins(data.urls, 3) \cup {url}
              /\ LastRow[7] \in Joins(data.addresses, 2) \cup {S_not_found}

\* a failed scrape has been saved: the urls column holds the URL
C7_Witness ==
    /\ pc = "called"
    /\ AllEmpty(data)
    /\ data.status = S_timeout
    /\ LastRow[6] = url
    /\ LastRow[7] = S_not_found

=============================================================================
